---- MODULE Spec2Model ----
(***************************************************************************)
(* Model of trae_agent/tools/report_locs.py: ReportLocsTool.execute.       *)
(*                                                                         *)
(* execute is a coroutine run on a single-threaded event loop.  Several    *)
(* invocations may be alive at once; each one runs its synchronous code    *)
(* without interruption and can be suspended (and cancelled) only while    *)
(* the POST is awaited.  The steps below follow the statements of          *)
(* execute in order; the environment (LOC_REPORT_URL, the transport, the   *)
(* host's cancellation) is nondeterministic.                               *)
(*                                                                         *)
(* Text is modelled as a sequence of string pieces (the concatenation of   *)
(* the pieces is the text), URLs as sequences of characters.  An optional  *)
(* value (Python's None or a value) is a set with at most one element.     *)
(***************************************************************************)
EXTENDS Integers, Sequences, FiniteSets, TLC

\* Longest loc_reports list / iterator drawn as an argument.
MaxLen == 2

\* Longest LOC_REPORT_URL value drawn in the URL specification.
MaxUrlLen == 4

\* The concurrent invocations of execute that are modelled.
Invocations == {1, 2}

None == {}

Some(v) == {v}

----------------------------------------------------------------------------
(* Argument values                                                         *)

\* A field of a raw report element: absent, a string, or an integer.
AbsentField == [type |-> "absent", val |-> ""]

StrField(s) == [type |-> "str", val |-> s]

IntField == [type |-> "int", val |-> "7"]

\* Raw elements: a well-formed report, one without func_name, one whose
\* rel_file_path is not path-like.
GoodElement == [rel_file_path |-> StrField("a.py"), func_name |-> StrField("foo")]

NoFuncElement == [rel_file_path |-> StrField("a.py"), func_name |-> AbsentField]

BadPathElement == [rel_file_path |-> IntField, func_name |-> StrField("foo")]

RawElements == {GoodElement, NoFuncElement, BadPathElement}

SeqsUpTo(S, n) == UNION {[1..k -> S] : k \in 0..n}

\* The value found under "loc_reports" in the argument mapping:
\*   missing  the key is absent          null  the value is None
\*   str      a string                   list  a list of raw elements
\*   gen      an iterator (generator) that yields raw elements
ArgValues ==
    {[kind |-> "missing", items |-> <<>>, text |-> ""],
     [kind |-> "null", items |-> <<>>, text |-> ""],
     [kind |-> "str", items |-> <<>>, text |-> ""],
     [kind |-> "str", items |-> <<>>, text |-> "a.py"]}
    \cup {[kind |-> k, items |-> s, text |-> ""] :
             k \in {"list", "gen"}, s \in SeqsUpTo(RawElements, MaxLen)}

\* arguments.get("loc_reports", []): a missing key reads as the empty list.
GetLocReports(a) ==
    IF a.kind = "missing" THEN [kind |-> "list", items |-> <<>>, text |-> ""] ELSE a

\* Mutant: only None counts as "not provided".
TruthyUnlessNone(v) == v.kind # "null"

\* Python truth value of the argument (the test of `if not loc_reports_data`).
Truthy(v) ==
    CASE v.kind = "null" -> FALSE
      [] v.kind = "str"  -> v.text # ""
      [] v.kind = "list" -> Len(v.items) > 0
      [] OTHER           -> TRUE

----------------------------------------------------------------------------
(* Validation: LocReports.model_validate                                   *)

\* The errors of one field of element number i (0-based in the diagnostic).
FieldErrors(i, name, f, msg) ==
    IF f.type = "absent" THEN <<ToString(i - 1), name, "Field required">>
    ELSE IF f.type # "str" THEN <<ToString(i - 1), name, msg>>
    ELSE <<>>

\* LocReport's two fields: rel_file_path: Path, func_name: str.
ElementErrors(i, e) ==
    FieldErrors(i, "rel_file_path", e.rel_file_path, "Input is not a valid path")
    \o FieldErrors(i, "func_name", e.func_name, "Input should be a valid string")

RECURSIVE ItemsErrors(_, _)
ItemsErrors(items, i) ==
    IF i > Len(items) THEN <<>>
    ELSE ElementErrors(i, items[i]) \o ItemsErrors(items, i + 1)

\* Mutant: validation stops looking after the first element.
ValidationErrorsFirstOnly(v) ==
    IF v.kind \notin {"list", "gen"} THEN <<"", "", "Input should be a valid list">>
    ELSE IF Len(v.items) = 0 THEN <<>> ELSE ElementErrors(1, v.items[1])

\* All validation errors of the argument, empty when it is valid.
ValidationErrors(v) ==
    IF v.kind \notin {"list", "gen"} THEN <<"", "", "Input should be a valid list">>
    ELSE ItemsErrors(v.items, 1)

\* str(ValidationError): the diagnostic text.
ValidationMessage(v) ==
    <<ToString(Len(ValidationErrors(v)) \div 3), "validation error for LocReports">>
    \o ValidationErrors(v)

\* A validated LocReport: rel_file_path is coerced to a Path, func_name stays a str.
LocReport(e) ==
    [rel_file_path |-> [type |-> "Path", val |-> e.rel_file_path.val],
     func_name |-> [type |-> "str", val |-> e.func_name.val]]

\* The validated batch (LocReports.root), in input order.
LocReports(v) == [i \in 1..Len(v.items) |-> LocReport(v.items[i])]

----------------------------------------------------------------------------
(* Endpoint, payload and transport                                         *)

\* A strip that removes at most one trailing slash.
rstripOne(s) ==
    IF s # <<>> /\ s[Len(s)] = "/" THEN SubSeq(s, 1, Len(s) - 1) ELSE s

\* base_url.rstrip('/'): every trailing "/" is removed.
RECURSIVE rstrip(_)
rstrip(s) ==
    IF s # <<>> /\ s[Len(s)] = "/" THEN rstrip(SubSeq(s, 1, Len(s) - 1)) ELSE s

\* Mutant: the endpoint is built with at most one trailing slash removed.
EndpointStripOne(b) == rstripOne(b) \o <<"/", "report">>

\* f"{base_url.rstrip('/')}/report"
Endpoint(b) == rstrip(b) \o <<"/", "report">>

\* Mutant: a variable set to the empty string counts as configured.
NotSetOnlyNone(v) == v = None

\* `not base_url` for os.getenv's result: None or the empty string.
NotSet(v) == v = None \/ v = Some(<<>>)

\* report.model_dump(): a dict of the field values, kept as Python objects.
ModelDump(r) == [rel_file_path |-> r.rel_file_path, func_name |-> r.func_name]

\* {"loc_reports": [report.model_dump() for report in loc_reports.root]}
Payload(batch) == [loc_reports |-> [i \in 1..Len(batch) |-> ModelDump(batch[i])]]

\* json.dumps inside client.post(url, json=data): only JSON types encode.
JsonSerializable(d) ==
    \A i \in 1..Len(d.loc_reports) :
        /\ d.loc_reports[i].rel_file_path.type = "str"
        /\ d.loc_reports[i].func_name.type = "str"

\* The encoded request body.
JsonBody(d) ==
    [loc_reports |->
        [i \in 1..Len(d.loc_reports) |->
            [rel_file_path |-> d.loc_reports[i].rel_file_path.val,
             func_name |-> d.loc_reports[i].func_name.val]]]

\* What the transport does with a request: an HTTP status or a failure.
Transports == {"200", "404", "500", "ConnectError", "ReadTimeout", "RemoteProtocolError"}

SuccessStatus(t) == t = "200"

TransportFailure(t) == t \in {"ConnectError", "ReadTimeout", "RemoteProtocolError"}

\* str(e) of the httpx exception the outcome raises.
Describe(t) ==
    CASE t = "404" -> "Client error '404 Not Found'"
      [] t = "500" -> "Server error '500 Internal Server Error'"
      [] t = "ConnectError" -> "All connection attempts failed"
      [] t = "ReadTimeout" -> "The read operation timed out"
      [] OTHER -> "Server disconnected without sending a response."

\* The exception client.post / raise_for_status raise for a failing outcome.
TransportException(t) ==
    [class |-> IF TransportFailure(t) THEN t ELSE "HTTPStatusError", msg |-> <<Describe(t)>>]

----------------------------------------------------------------------------
(* Results and the except clauses                                          *)

ErrorResult(msg) == [output |-> None, error |-> Some(msg)]

OutputResult(msg) == [output |-> Some(msg), error |-> None]

\* Subclasses of httpx.HTTPError.
IsHTTPError(class) ==
    class \in {"HTTPStatusError", "ConnectError", "ReadTimeout", "RemoteProtocolError"}

\* Subclasses of Exception; asyncio.CancelledError derives from BaseException.
IsException(class) == IsHTTPError(class) \/ class \in {"ValidationError", "TypeError"}

\* How execute ends when `exc` is raised inside the try block:
\* a returned result, or the exception leaving execute.
Handle(exc) ==
    IF IsHTTPError(exc.class)
    THEN [result |-> Some(ErrorResult(<<"Failed to send location reports: ">> \o exc.msg)),
          raised |-> "none"]
    ELSE IF IsException(exc.class)
    THEN [result |-> Some(ErrorResult(<<"Error processing location reports: ">> \o exc.msg)),
          raised |-> "none"]
    ELSE [result |-> None, raised |-> exc.class]

\* Mutant: the client is closed by a plain call after the request, which a
\* cancellation skips.
ClientExitNoCancel(open, c, how) == IF how = "cancel" THEN open ELSE open \ {c}

\* Leaving `async with httpx.AsyncClient() as client`: __aexit__ closes the
\* client however the block is left.
ClientExit(open, c, how) == open \ {c}

----------------------------------------------------------------------------
(* State                                                                   *)

VARIABLES
    env,          \* LOC_REPORT_URL in the process environment: None or Some(url)
    pc,           \* pc[i]: where invocation i of execute stands
    arguments,    \* arguments[i]: the loc_reports entry of the argument mapping
    loc_reports,  \* loc_reports[i]: the validated batch
    base_url,     \* base_url[i]: what os.getenv returned, once it was called
    url,          \* url[i]: the endpoint, once computed
    data,         \* data[i]: the payload, once prepared
    client,       \* client[i]: the AsyncClient the invocation opened, 0 before
    openClients,  \* the AsyncClient objects that are open
    nextClient,   \* identity of the next AsyncClient object constructed
    transport,    \* transport[i]: how the transport answers the invocation's request
    sent,         \* sent[i]: the requests the invocation handed to the transport
    result,       \* result[i]: the ToolExecResult returned, None before
    raised,       \* raised[i]: the exception that left execute, "none" otherwise
    cancelled     \* cancelled[i]: the host cancelled the invocation

vars == <<env, pc, arguments, loc_reports, base_url, url, data, client, openClients,
          nextClient, transport, sent, result, raised, cancelled>>

NoArg == [kind |-> "none", items |-> <<>>, text |-> ""]

NoData == [loc_reports |-> <<>>]

NotRead == [read |-> FALSE, value |-> None]

\* Values LOC_REPORT_URL takes while invocations run.
EnvValues == {None, Some(<<>>), Some(<<"h">>), Some(<<"h", "/">>)}

\* Every URL of at most MaxUrlLen characters over a two-letter alphabet.
UrlValues == {None} \cup {Some(u) : u \in SeqsUpTo({"h", "/"}, MaxUrlLen)}

InitLocals ==
    /\ pc = [i \in Invocations |-> "idle"]
    /\ arguments = [i \in Invocations |-> NoArg]
    /\ loc_reports = [i \in Invocations |-> <<>>]
    /\ base_url = [i \in Invocations |-> NotRead]
    /\ url = [i \in Invocations |-> <<>>]
    /\ data = [i \in Invocations |-> NoData]
    /\ client = [i \in Invocations |-> 0]
    /\ openClients = {}
    /\ nextClient = 1
    /\ transport = [i \in Invocations |-> "unknown"]
    /\ sent = [i \in Invocations |-> <<>>]
    /\ result = [i \in Invocations |-> None]
    /\ raised = [i \in Invocations |-> "none"]
    /\ cancelled = [i \in Invocations |-> FALSE]

Init == env \in EnvValues /\ InitLocals

\* execute returns r.
Return(i, r) ==
    /\ pc' = [pc EXCEPT ![i] = "done"]
    /\ result' = [result EXCEPT ![i] = Some(r)]
    /\ raised' = raised

\* exc is raised inside the try block of execute.
Raise(i, exc) ==
    /\ pc' = [pc EXCEPT ![i] = "done"]
    /\ result' = [result EXCEPT ![i] = Handle(exc).result]
    /\ raised' = [raised EXCEPT ![i] = Handle(exc).raised]

----------------------------------------------------------------------------
(* The steps of execute                                                    *)

\* Lines 56-60: the host calls execute(arguments); an argument that is
\* missing or falsy ends the call.
InvokeWith(i, a) ==
    /\ pc[i] = "idle"
    /\ arguments' = [arguments EXCEPT ![i] = a]
    /\ IF ~Truthy(GetLocReports(a))
       THEN Return(i, ErrorResult(<<"No location reports provided.">>))
       ELSE /\ pc' = [pc EXCEPT ![i] = "validate"]
            /\ UNCHANGED <<result, raised>>
    /\ UNCHANGED <<env, loc_reports, base_url, url, data, client, openClients,
                   nextClient, transport, sent, cancelled>>

Invoke(i) == \E a \in ArgValues : InvokeWith(i, a)

\* Lines 62-64: LocReports.model_validate(loc_reports_data).
Validate(i) ==
    /\ pc[i] = "validate"
    /\ IF ValidationErrors(arguments[i]) # <<>>
       THEN /\ Raise(i, [class |-> "ValidationError", msg |-> ValidationMessage(arguments[i])])
            /\ UNCHANGED loc_reports
       ELSE /\ loc_reports' = [loc_reports EXCEPT ![i] = LocReports(arguments[i])]
            /\ pc' = [pc EXCEPT ![i] = "config"]
            /\ UNCHANGED <<result, raised>>
    /\ UNCHANGED <<env, arguments, base_url, url, data, client, openClients,
                   nextClient, transport, sent, cancelled>>

\* Lines 66-72: os.getenv("LOC_REPORT_URL"), then the endpoint.
ResolveConfig(i) ==
    /\ pc[i] = "config"
    /\ base_url' = [base_url EXCEPT ![i] = [read |-> TRUE, value |-> env]]
    /\ IF NotSet(env)
       THEN /\ Return(i, ErrorResult(<<"LOC_REPORT_URL environment variable not set.">>))
            /\ UNCHANGED url
       ELSE /\ url' = [url EXCEPT ![i] = Endpoint(CHOOSE b \in env : TRUE)]
            /\ pc' = [pc EXCEPT ![i] = "prepare"]
            /\ UNCHANGED <<result, raised>>
    /\ UNCHANGED <<env, arguments, loc_reports, data, client, openClients,
                   nextClient, transport, sent, cancelled>>

\* Lines 74-75: the payload.
Prepare(i) ==
    /\ pc[i] = "prepare"
    /\ data' = [data EXCEPT ![i] = Payload(loc_reports[i])]
    /\ pc' = [pc EXCEPT ![i] = "post"]
    /\ UNCHANGED <<env, arguments, loc_reports, base_url, url, client, openClients,
                   nextClient, transport, sent, result, raised, cancelled>>

\* Lines 78-79: a client is opened and client.post(url, json=data) is called.
\* Building the request encodes the payload; a payload that does not encode
\* raises TypeError before anything reaches the transport, and the client is
\* closed on the way out.  Otherwise the request is handed to the transport
\* and the invocation is suspended until the transport answers.
Post(i) ==
    /\ pc[i] = "post"
    /\ client' = [client EXCEPT ![i] = nextClient]
    /\ nextClient' = nextClient + 1
    /\ \E t \in Transports : transport' = [transport EXCEPT ![i] = t]
    /\ IF JsonSerializable(data[i])
       THEN /\ openClients' = openClients \cup {nextClient}
            /\ sent' = [sent EXCEPT ![i] = Append(@, [url |-> url[i], body |-> JsonBody(data[i])])]
            /\ pc' = [pc EXCEPT ![i] = "inflight"]
            /\ UNCHANGED <<result, raised>>
       ELSE /\ openClients' = ClientExit(openClients \cup {nextClient}, nextClient, "error")
            /\ Raise(i, [class |-> "TypeError",
                         msg |-> <<"Object of type PosixPath is not JSON serializable">>])
            /\ UNCHANGED sent
    /\ UNCHANGED <<env, arguments, loc_reports, base_url, url, data, cancelled>>

\* Lines 79-85: the transport answers; raise_for_status; the client is closed.
Response(i) ==
    /\ pc[i] = "inflight"
    /\ IF SuccessStatus(transport[i])
       THEN /\ openClients' = ClientExit(openClients, client[i], "normal")
            /\ Return(i, OutputResult(<<"Location reports sent successfully.">>))
       ELSE /\ openClients' = ClientExit(openClients, client[i], "error")
            /\ Raise(i, TransportException(transport[i]))
    /\ UNCHANGED <<env, arguments, loc_reports, base_url, url, data, client,
                   nextClient, transport, sent, cancelled>>

\* The host cancels the task while it awaits the POST (line 79):
\* CancelledError is raised at the await.
Cancel(i) ==
    /\ pc[i] = "inflight"
    /\ openClients' = ClientExit(openClients, client[i], "cancel")
    /\ Raise(i, [class |-> "CancelledError", msg |-> <<>>])
    /\ cancelled' = [cancelled EXCEPT ![i] = TRUE]
    /\ UNCHANGED <<env, arguments, loc_reports, base_url, url, data, client,
                   nextClient, transport, sent>>

\* Something else in the process changes LOC_REPORT_URL.
SetEnv ==
    /\ \E v \in EnvValues \ {env} : env' = v
    /\ UNCHANGED <<pc, arguments, loc_reports, base_url, url, data, client,
                   openClients, nextClient, transport, sent, result, raised, cancelled>>

Step(i) ==
    \/ Invoke(i)
    \/ Validate(i)
    \/ ResolveConfig(i)
    \/ Prepare(i)
    \/ Post(i)
    \/ Response(i)
    \/ Cancel(i)

Next == (\E i \in Invocations : Step(i)) \/ SetEnv

Spec == Init /\ [][Next]_vars

----------------------------------------------------------------------------
(* The endpoint over every short LOC_REPORT_URL value: one invocation,     *)
(* with a batch that reaches the transport and one that does not.          *)

UrlArgs ==
    {[kind |-> "list", items |-> <<GoodElement>>, text |-> ""],
     [kind |-> "gen", items |-> <<>>, text |-> ""]}

InitUrl == env \in UrlValues /\ InitLocals

InvokeUrl(i) == \E a \in UrlArgs : InvokeWith(i, a)

NextUrl ==
    \/ InvokeUrl(1)
    \/ Validate(1)
    \/ ResolveConfig(1)
    \/ Prepare(1)
    \/ Post(1)
    \/ Response(1)
    \/ Cancel(1)

SpecUrl == InitUrl /\ [][NextUrl]_vars

----------------------------------------------------------------------------
(* Vocabulary of the properties                                            *)

Done(i) == pc[i] = "done"

WellFormed(e) == e.rel_file_path.type = "str" /\ e.func_name.type = "str"

IsBatch(a) == a.kind \in {"list", "gen"} /\ Len(a.items) > 0

\* A non-empty batch of well-formed reports.
ValidBatch(a) == IsBatch(a) /\ \A k \in 1..Len(a.items) : WellFormed(a.items[k])

\* A non-empty batch with at least one malformed element.
MalformedBatch(a) == IsBatch(a) /\ \E k \in 1..Len(a.items) : ~WellFormed(a.items[k])

\* The invocation read a non-empty LOC_REPORT_URL.
UrlResolved(i) == base_url[i].read /\ base_url[i].value \notin {None, Some(<<>>)}

\* The invocation read LOC_REPORT_URL and found it absent or empty.
UrlMissing(i) == base_url[i].read /\ base_url[i].value \in {None, Some(<<>>)}

ReturnedError(i, msg) ==
    raised[i] = "none" /\ result[i] = {[output |-> {}, error |-> {msg}]}

ReturnedOutput(i, msg) ==
    raised[i] = "none" /\ result[i] = {[output |-> {msg}, error |-> {}]}

\* Some piece of the text m is the piece p.
Includes(m, p) == \E k \in 1..Len(m) : m[k] = p

NoNetwork(i) == sent[i] = <<>> /\ client[i] = 0

----------------------------------------------------------------------------
(* Properties                                                              *)

\* C1: every invocation that has ended returned exactly one ToolExecResult
\* with exactly one of output and error set, and raised nothing.
C1_AlwaysOneResult ==
    \A i \in Invocations :
        Done(i) =>
            /\ raised[i] = "none"
            /\ Cardinality(result[i]) = 1
            /\ \A r \in result[i] : (r.output = {}) # (r.error = {})

\* C2: a non-empty batch of well-formed reports, a non-empty LOC_REPORT_URL and
\* a transport answering 2xx give the output "Location reports sent
\* successfully.", the request carrying each rel_file_path as a string.
C2_ValidBatchSucceeds ==
    \A i \in Invocations :
        (Done(i) /\ ValidBatch(arguments[i]) /\ UrlResolved(i)
            /\ transport[i] = "200" /\ ~cancelled[i])
        => /\ ReturnedOutput(i, <<"Location reports sent successfully.">>)
           /\ Len(sent[i]) = 1
           /\ Len(sent[i][1].body.loc_reports) = Len(arguments[i].items)
           /\ \A k \in 1..Len(arguments[i].items) :
                sent[i][1].body.loc_reports[k].rel_file_path
                    = arguments[i].items[k].rel_file_path.val

\* C3: an invocation cancelled while the POST is in flight returns an error
\* result; the cancellation does not leave execute.
C3_CancelReturnsError ==
    \A i \in Invocations :
        cancelled[i] =>
            /\ raised[i] = "none"
            /\ \E r \in result[i] : r.error # {} /\ r.output = {}

\* C4: with a valid batch and a configured URL, a transport that answers with
\* a non-success status or fails gives an error result whose message includes
\* the failure's description, and nothing is raised.
C4_TransportFailureReported ==
    \A i \in Invocations :
        (Done(i) /\ ValidBatch(arguments[i]) /\ UrlResolved(i) /\ ~cancelled[i]
            /\ transport[i] \in Transports /\ transport[i] # "200")
        => /\ raised[i] = "none"
           /\ \E r \in result[i] :
                /\ r.output = {}
                /\ \E m \in r.error : Includes(m, Describe(transport[i]))

\* C5: a missing, null or empty loc_reports argument ends the call with the
\* error "No location reports provided." and no request.
C5_EmptyInput ==
    \A i \in Invocations :
        (\/ arguments[i].kind \in {"missing", "null"}
         \/ (arguments[i].kind = "list" /\ arguments[i].items = <<>>))
        => /\ Done(i)
           /\ ReturnedError(i, <<"No location reports provided.">>)
           /\ NoNetwork(i)

C5_Witness ==
    \E i, j \in Invocations :
        /\ Done(i) /\ arguments[i].kind = "missing"
        /\ Done(j) /\ arguments[j].kind = "list" /\ arguments[j].items = <<>>

\* C6: a valid batch with LOC_REPORT_URL absent or empty when it is read ends
\* the call with the error "LOC_REPORT_URL environment variable not set.", no
\* client opened and no request issued.
C6_ConfigMissing ==
    \A i \in Invocations :
        (ValidBatch(arguments[i]) /\ UrlMissing(i))
        => /\ Done(i)
           /\ ReturnedError(i, <<"LOC_REPORT_URL environment variable not set.">>)
           /\ NoNetwork(i)

C6_Witness ==
    \E i, j \in Invocations :
        /\ Done(i) /\ ValidBatch(arguments[i]) /\ base_url[i] = [read |-> TRUE, value |-> {}]
        /\ Done(j) /\ ValidBatch(arguments[j]) /\ base_url[j] = [read |-> TRUE, value |-> {<<>>}]

\* C7: a batch with a malformed element is rejected whole, before the
\* configuration is looked at: the call ends at validation with an error that
\* carries the diagnostic of every malformed element, and nothing is sent.
C7_MalformedRejected ==
    \A i \in Invocations :
        MalformedBatch(arguments[i])
        => /\ pc[i] \in {"validate", "done"}
           /\ ~base_url[i].read
           /\ NoNetwork(i)
           /\ Done(i) =>
                /\ raised[i] = "none"
                /\ \E r \in result[i] :
                    /\ r.output = {}
                    /\ \E m \in r.error :
                        /\ m[1] = "Error processing location reports: "
                        /\ \A k \in 1..Len(arguments[i].items) :
                            ~WellFormed(arguments[i].items[k])
                            => \E q \in 1..(Len(m) - 1) :
                                 /\ m[q] = ToString(k - 1)
                                 /\ m[q + 1] \in {"rel_file_path", "func_name"}

C7_Witness ==
    \E i, j \in Invocations :
        /\ Done(i) /\ arguments[i].items = <<GoodElement, NoFuncElement>>
        /\ Done(j) /\ arguments[j].items = <<BadPathElement, GoodElement>>
        /\ env = {<<"h">>}

\* C8: an invocation that passed validation and resolved a non-empty URL has,
\* when it ends, issued exactly one request (the URL is read only after
\* validation has passed, so UrlResolved covers both conditions).
C8_ExactlyOnePost ==
    \A i \in Invocations :
        (Done(i) /\ UrlResolved(i)) => Len(sent[i]) = 1

\* C9: once an invocation has ended, the client it opened is closed; only
\* invocations suspended in the POST hold an open client; no two invocations
\* hold the same client.
C9_ClientReleased ==
    /\ \A i \in Invocations : Done(i) => client[i] \notin openClients
    /\ openClients \subseteq {client[i] : i \in {j \in Invocations : pc[j] = "inflight"}}
    /\ \A i, j \in Invocations : (i # j /\ client[i] # 0) => client[i] # client[j]

C9_Witness ==
    \E i, j \in Invocations :
        /\ Done(i) /\ cancelled[i] /\ client[i] # 0
        /\ pc[j] = "inflight" /\ client[j] \in openClients

\* C10: for a non-empty base URL b, the endpoint is b without its trailing
\* slashes followed by "/report", and that is where the request goes.
C10_Endpoint ==
    \A i \in Invocations :
        UrlResolved(i) =>
            \A b \in base_url[i].value :
                /\ \E k \in 0..Len(b) :
                    /\ url[i] = SubSeq(b, 1, k) \o <<"/", "report">>
                    /\ k > 0 => b[k] # "/"
                    /\ \A q \in (k + 1)..Len(b) : b[q] = "/"
                /\ \A q \in 1..Len(sent[i]) : sent[i][q].url = url[i]

C10_Witness ==
    \E i \in Invocations :
        /\ Len(sent[i]) = 1
        /\ \E b \in base_url[i].value :
            Len(b) >= 3 /\ b[Len(b)] = "/" /\ b[Len(b) - 1] = "/" /\ b[1] = "h"

====
